---- MODULE Spec2Model ----
(***************************************************************************)
(* PrivaSend: PII detection (regex layer, Presidio layer, merge, optional  *)
(* LLM validation) and reversible redaction.                               *)
(*                                                                         *)
(* Texts are strings; offsets are Python offsets (0-based, half-open).     *)
(* Confidences are integers in units of 1/10000 (0.95 is 9500), so that    *)
(* the blend 0.6*c + 0.4*l and the penalty 0.3*c are exact.                *)
(***************************************************************************)
EXTENDS Integers, Sequences, FiniteSets, TLC

(***************************************************************************)
(* Strings                                                                 *)
(***************************************************************************)

\* text[a:b] for 0 <= a, b (Python clamps b to len and yields "" when a >= b)
Slice(t, a, b) ==
    LET hi == IF b > Len(t) THEN Len(t) ELSE b
    IN IF a >= hi THEN "" ELSE SubSeq(t, a + 1, hi)

\* text[i], for 0 <= i < len(text)
Chr(t, i) == SubSeq(t, i + 1, i + 1)

Digit == {"0", "1", "2", "3", "4", "5", "6", "7", "8", "9"}

UpperLetters == "ABCDEFGHIJKLMNOPQRSTUVWXYZ"

LowerLetters == "abcdefghijklmnopqrstuvwxyz"

Upper == {Chr(UpperLetters, i) : i \in 0..25}

Lower == {Chr(LowerLetters, i) : i \in 0..25}

Alpha == Upper \cup Lower

\* \w of the re module (ASCII part)
WordChar == Alpha \cup Digit \cup {"_"}

\* \s of the re module (ASCII part)
Space == {" ", "\t", "\n", "\r", "\f"}

\* str.lower() of one character
LowerChr(c) ==
    IF c \in Upper
    THEN Chr(LowerLetters, CHOOSE i \in 0..25 : Chr(UpperLetters, i) = c)
    ELSE c

RECURSIVE LowerFrom(_, _)
LowerFrom(s, i) ==
    IF i >= Len(s) THEN "" ELSE LowerChr(Chr(s, i)) \o LowerFrom(s, i + 1)

\* str.lower()
LowerStr(s) == LowerFrom(s, 0)

(***************************************************************************)
(* The re module: a backtracking matcher.  A pattern is a tree of nodes;   *)
(* M yields the match states reachable from st in the order in which the   *)
(* backtracking search of re tries them, so its head is the match re       *)
(* reports.  A match state is the position and the spans of the groups.    *)
(***************************************************************************)

NoSpan == <<0 - 1, 0 - 1>>

St(p) == [p |-> p, g |-> <<NoSpan, NoSpan, NoSpan>>]

In(s) == [k |-> "in", s |-> s]

NotIn(s) == [k |-> "notin", s |-> s]

Lit(s) == [k |-> "lit", s |-> s]

LitI(s) == [k |-> "liti", s |-> s]

WordB == [k |-> "wb"]

Cat(l) == [k |-> "cat", l |-> l]

Alt(l) == [k |-> "alt", l |-> l]

\* greedy r{lo,hi}; hi = Inf for an open upper end
Inf == 0 - 1

Rep(r, lo, hi) == [k |-> "rep", r |-> r, lo |-> lo, hi |-> hi]

Opt(r) == Rep(r, 0, 1)

Plus(r) == Rep(r, 1, Inf)

Star(r) == Rep(r, 0, Inf)

Grp(n, r) == [k |-> "grp", n |-> n, r |-> r]

IsWordAt(t, i) == i >= 0 /\ i < Len(t) /\ Chr(t, i) \in WordChar

RECURSIVE M(_, _, _), MCat(_, _, _, _), MCatAll(_, _, _, _, _)
RECURSIVE MAlt(_, _, _, _), MRep(_, _, _, _), MRepAll(_, _, _, _, _)
M(re, t, st) ==
    CASE re.k = "in" ->
           IF st.p < Len(t) /\ Chr(t, st.p) \in re.s
           THEN <<[st EXCEPT !.p = @ + 1]>> ELSE <<>>
      [] re.k = "notin" ->
           IF st.p < Len(t) /\ Chr(t, st.p) \notin re.s
           THEN <<[st EXCEPT !.p = @ + 1]>> ELSE <<>>
      [] re.k = "lit" ->
           IF Slice(t, st.p, st.p + Len(re.s)) = re.s
           THEN <<[st EXCEPT !.p = @ + Len(re.s)]>> ELSE <<>>
      [] re.k = "liti" ->
           IF LowerStr(Slice(t, st.p, st.p + Len(re.s))) = LowerStr(re.s)
           THEN <<[st EXCEPT !.p = @ + Len(re.s)]>> ELSE <<>>
      [] re.k = "wb" ->
           IF IsWordAt(t, st.p - 1) # IsWordAt(t, st.p) THEN <<st>> ELSE <<>>
      [] re.k = "cat" -> MCat(re.l, 1, t, st)
      [] re.k = "alt" -> MAlt(re.l, 1, t, st)
      [] re.k = "rep" -> MRep(re, 0, t, st)
      [] re.k = "grp" ->
           LET ms == M(re.r, t, st)
           IN [i \in 1..Len(ms) |->
                 [ms[i] EXCEPT !.g[re.n] = <<st.p, ms[i].p>>]]

MCat(l, i, t, st) ==
    IF i > Len(l) THEN <<st>>
    ELSE MCatAll(l, i, t, M(l[i], t, st), 1)

MCatAll(l, i, t, sts, j) ==
    IF j > Len(sts) THEN <<>>
    ELSE MCat(l, i + 1, t, sts[j]) \o MCatAll(l, i, t, sts, j + 1)

MAlt(l, i, t, st) ==
    IF i > Len(l) THEN <<>>
    ELSE M(l[i], t, st) \o MAlt(l, i + 1, t, st)

\* n repetitions done: first one more (greedy), then stopping here
MRep(re, n, t, st) ==
    LET stop == IF n >= re.lo THEN <<st>> ELSE <<>>
    IN IF re.hi # Inf /\ n >= re.hi THEN stop
       ELSE MRepAll(re, n, t, M(re.r, t, st), 1) \o stop

MRepAll(re, n, t, sts, j) ==
    IF j > Len(sts) THEN <<>>
    ELSE MRep(re, n + 1, t, sts[j]) \o MRepAll(re, n, t, sts, j + 1)

\* a match object: span and group spans
Match(s, st) == [s |-> s, e |-> st.p, g |-> st.g]

\* pattern.finditer(text): leftmost matches, each search resuming where the
\* last match ended (one further on after an empty match)
RECURSIVE FindIter(_, _, _)
FindIter(re, t, from) ==
    IF from > Len(t) THEN <<>>
    ELSE LET ms == M(re, t, St(from))
         IN IF ms = <<>> THEN FindIter(re, t, from + 1)
            ELSE <<Match(from, ms[1])>>
                 \o FindIter(re, t, IF ms[1].p > from THEN ms[1].p ELSE from + 1)

\* match.group(n), match.start(n) and match.end(n)
Group(t, m, n) == Slice(t, m.g[n][1], m.g[n][2])

HasGroup(m, n) == m.g[n] # NoSpan /\ m.g[n][1] < m.g[n][2]

(***************************************************************************)
(* Data model                                                              *)
(***************************************************************************)

\* pre_llm_confidence: float | None = None
None == -1

REGEX == "regex"

PRESIDIO == "presidio"

DetectedEntity(start, end, pii_type, value, confidence, source) ==
    [start |-> start, end |-> end, pii_type |-> pii_type, value |-> value,
     confidence |-> confidence, source |-> source,
     pre_llm_confidence |-> None, llm_validated |-> FALSE]

(***************************************************************************)
(* Layer 1: regex patterns.  RegexPatterns holds, in the order of          *)
(* _REGEX_PATTERNS, the rules that match somewhere in a text of Texts or   *)
(* of DobTexts; every other rule of the library matches none of those      *)
(* texts.                                                                  *)
(***************************************************************************)

Sep == Space \cup {"-"}

SepDot == Space \cup {"-", "."}

D(n) == Rep(In(Digit), n, n)

RegexPatterns == <<
    \* \b[A-Za-z0-9._%+\-]+@[A-Za-z0-9.\-]+\.[A-Za-z]{2,}\b
    <<"EMAIL",
      Cat(<<WordB, Plus(In(Alpha \cup Digit \cup {".", "_", "%", "+", "-"})),
            Lit("@"), Plus(In(Alpha \cup Digit \cup {".", "-"})), Lit("."),
            Rep(In(Alpha), 2, Inf), WordB>>),
      9500>>,
    \* \(?\d{3}\)?[\s\-.]?\d{3}[\s\-.]?\d{4}\b
    <<"PHONE",
      Cat(<<Opt(Lit("(")), D(3), Opt(Lit(")")), Opt(In(SepDot)), D(3),
            Opt(In(SepDot)), D(4), WordB>>),
      8000>>,
    \* \b\d{9}\b
    <<"SSN", Cat(<<WordB, D(9), WordB>>), 4000>>,
    \* \b4\d{3}[\s\-]?\d{4}[\s\-]?\d{4}[\s\-]?\d{4}\b
    <<"CREDIT_CARD",
      Cat(<<WordB, Lit("4"), D(3), Opt(In(Sep)), D(4), Opt(In(Sep)), D(4),
            Opt(In(Sep)), D(4), WordB>>),
      9000>>,
    \* \b\d{4}[\s\-]\d{4}[\s\-]\d{4}[\s\-]\d{4}\b
    <<"CREDIT_CARD",
      Cat(<<WordB, D(4), In(Sep), D(4), In(Sep), D(4), In(Sep), D(4), WordB>>),
      7000>>,
    \* \b[2-9]\d{3}[\s\-]?\d{4}[\s\-]?\d{4}\b
    <<"AADHAAR",
      Cat(<<WordB, In(Digit \ {"0", "1"}), D(3), Opt(In(Sep)), D(4),
            Opt(In(Sep)), D(4), WordB>>),
      7500>>,
    \* \b[A-Z][1-9]\d{6}\b
    <<"PASSPORT", Cat(<<WordB, In(Upper), In(Digit \ {"0"}), D(6), WordB>>), 5500>>,
    \* \b[A-Z]\d{7,8}\b
    <<"DRIVERS_LICENSE", Cat(<<WordB, In(Upper), Rep(In(Digit), 7, 8), WordB>>), 4500>>,
    \* \b\d{9}[\s\-]?\d{7,17}\b
    <<"BANK_ACCOUNT",
      Cat(<<WordB, D(9), Opt(In(Sep)), Rep(In(Digit), 7, 17), WordB>>),
      5000>>,
    \* \b(?:0[1-9]|1[0-2])[/\-](?:0[1-9]|[12]\d|3[01])[/\-](?:19|20)\d{2}\b
    <<"DATE_OF_BIRTH",
      Cat(<<WordB,
            Alt(<<Cat(<<Lit("0"), In(Digit \ {"0"})>>),
                  Cat(<<Lit("1"), In({"0", "1", "2"})>>)>>),
            In({"/", "-"}),
            Alt(<<Cat(<<Lit("0"), In(Digit \ {"0"})>>),
                  Cat(<<In({"1", "2"}), In(Digit)>>),
                  Cat(<<Lit("3"), In({"0", "1"})>>)>>),
            In({"/", "-"}),
            Alt(<<Lit("19"), Lit("20")>>), D(2), WordB>>),
      6500>>,
    \* \b(?:19|20)\d{2}[/\-](?:0[1-9]|1[0-2])[/\-](?:0[1-9]|[12]\d|3[01])\b
    <<"DATE_OF_BIRTH",
      Cat(<<WordB, Alt(<<Lit("19"), Lit("20")>>), D(2),
            In({"/", "-"}),
            Alt(<<Cat(<<Lit("0"), In(Digit \ {"0"})>>),
                  Cat(<<Lit("1"), In({"0", "1", "2"})>>)>>),
            In({"/", "-"}),
            Alt(<<Cat(<<Lit("0"), In(Digit \ {"0"})>>),
                  Cat(<<In({"1", "2"}), In(Digit)>>),
                  Cat(<<Lit("3"), In({"0", "1"})>>)>>),
            WordB>>),
      6500>> >>

\* \b(?:born|birth|dob|d\.o\.b|date\s+of\s+birth|birthday|birthdate|age|DOB)\b,
\* re.IGNORECASE
_DOB_CONTEXT_KEYWORDS ==
    Cat(<<WordB,
          Alt(<<LitI("born"), LitI("birth"), LitI("dob"), LitI("d.o.b"),
                Cat(<<LitI("date"), Plus(In(Space)), LitI("of"), Plus(In(Space)),
                      LitI("birth")>>),
                LitI("birthday"), LitI("birthdate"), LitI("age"), LitI("DOB")>>),
          WordB>>)

\* the keywords are searched in the window cut out of the text, so that the
\* two ends of the window are word boundaries for the search
_has_dob_context(t, start, end) ==
    LET window_start == IF start - 40 > 0 THEN start - 40 ELSE 0
        window_end == IF end + 40 < Len(t) THEN end + 40 ELSE Len(t)
        window == Slice(t, window_start, window_end)
    IN FindIter(_DOB_CONTEXT_KEYWORDS, window, 0) # <<>>

\* [?&]email=([^&\s]+@[^&\s]+)
UrlEmailRe ==
    Cat(<<In({"?", "&"}), Lit("email="),
          Grp(1, Cat(<<Plus(NotIn(Space \cup {"&"})), Lit("@"),
                       Plus(NotIn(Space \cup {"&"}))>>))>>)

\* _JSON_PII_KEYS, in the order of the dict
JsonPiiKeys == <<
    <<"ssn", "SSN">>, <<"social_security", "SSN">>,
    <<"user", "CREDENTIAL">>, <<"username", "CREDENTIAL">>,
    <<"login", "CREDENTIAL">>, <<"account", "CREDENTIAL">>,
    <<"token", "CREDENTIAL">>, <<"tokens", "CREDENTIAL">>,
    <<"secret", "CREDENTIAL">>, <<"password", "CREDENTIAL">>,
    <<"api_key", "API_KEY">>, <<"apikey", "API_KEY">>,
    <<"email", "EMAIL">>, <<"mail", "EMAIL">>,
    <<"phone", "PHONE">>, <<"mobile", "PHONE">>,
    <<"name", "PERSON">>, <<"full_name", "PERSON">>,
    <<"card", "CREDIT_CARD">>, <<"cards", "CREDIT_CARD">>,
    <<"cc", "CREDIT_CARD">>, <<"credit_card", "CREDIT_CARD">>,
    <<"address", "ADDRESS">>, <<"addr", "ADDRESS">>,
    <<"aadhaar", "AADHAAR">>, <<"pan", "PAN">> >>

\* _JSON_PII_KEYS.get(key)
JsonKeyType(key) ==
    LET i == CHOOSE i \in 1..Len(JsonPiiKeys) : JsonPiiKeys[i][1] = key
    IN JsonPiiKeys[i][2]

\* "(ssn|...|pan)"\s*:\s*(?:"([^"]{2,})"|\[([^\]]+)\]), re.IGNORECASE
JsonRe ==
    Cat(<<Lit("\""),
          Grp(1, Alt([i \in 1..Len(JsonPiiKeys) |-> LitI(JsonPiiKeys[i][1])])),
          Lit("\""), Star(In(Space)), Lit(":"), Star(In(Space)),
          Alt(<<Cat(<<Lit("\""), Grp(2, Rep(NotIn({"\""}), 2, Inf)), Lit("\"")>>),
                Cat(<<Lit("["), Grp(3, Plus(NotIn({"]"}))), Lit("]")>>)>>)>>)

\* "([^"]{2,})"
JsonArrayItemRe ==
    Cat(<<Lit("\""), Grp(1, Rep(NotIn({"\""}), 2, Inf)), Lit("\"")>>)

\* \b(token|secret|credential|auth)\s*=\s*([A-Za-z0-9\-_\.]{3,}), re.IGNORECASE
TokenRe ==
    Cat(<<WordB,
          Grp(1, Alt(<<LitI("token"), LitI("secret"), LitI("credential"),
                       LitI("auth")>>)),
          Star(In(Space)), Lit("="), Star(In(Space)),
          Grp(2, Rep(In(Alpha \cup Digit \cup {"-", "_", "."}), 3, Inf))>>)

\* any(r.start == val_start and r.end == val_end for r in results)
Already(results, s, e) ==
    \E i \in 1..Len(results) : results[i].start = s /\ results[i].end = e

\* the entity of group n of a match, appended unless its span is already there
AppendGroup(results, t, m, n, off, pii_type, confidence) ==
    LET s == off + m.g[n][1]
        e == off + m.g[n][2]
    IN IF Already(results, s, e) THEN results
       ELSE Append(results,
                   DetectedEntity(s, e, pii_type, Group(t, m, n), confidence, REGEX))

\* for pii_type, pattern, confidence in _REGEX_PATTERNS: for match in finditer
RECURSIVE PatternLoop(_, _)
PatternLoop(t, i) ==
    IF i > Len(RegexPatterns) THEN <<>>
    ELSE LET pii_type == RegexPatterns[i][1]
             \* DOB requires context keyword nearby
             Kept(m) == pii_type = "DATE_OF_BIRTH" => _has_dob_context(t, m.s, m.e)
             ms == SelectSeq(FindIter(RegexPatterns[i][2], t, 0), Kept)
         IN [j \in 1..Len(ms) |->
               DetectedEntity(ms[j].s, ms[j].e, pii_type,
                              Slice(t, ms[j].s, ms[j].e), RegexPatterns[i][3],
                              REGEX)]
            \o PatternLoop(t, i + 1)

\* emails embedded in URLs: appended without a look at earlier results
UrlEmails(t) ==
    LET ms == FindIter(UrlEmailRe, t, 0)
    IN [j \in 1..Len(ms) |->
          DetectedEntity(ms[j].g[1][1], ms[j].g[1][2], "EMAIL",
                         Group(t, ms[j], 1), 9500, REGEX)]

\* the values of one "key": [ ... ] array
RECURSIVE JsonArrayLoop(_, _, _, _, _, _)
JsonArrayLoop(results, arr, off, ms, j, pii_type) ==
    IF j > Len(ms) THEN results
    ELSE JsonArrayLoop(AppendGroup(results, arr, ms[j], 1, off, pii_type, 8000),
                       arr, off, ms, j + 1, pii_type)

\* PII values inside JSON-like structures
RECURSIVE JsonLoop(_, _, _, _)
JsonLoop(results, t, ms, j) ==
    IF j > Len(ms) THEN results
    ELSE LET m == ms[j]
             pii_type == JsonKeyType(LowerStr(Group(t, m, 1)))
             next ==
                 IF HasGroup(m, 2)
                 THEN AppendGroup(results, t, m, 2, 0, pii_type, 8500)
                 ELSE IF HasGroup(m, 3)
                 THEN JsonArrayLoop(results, Group(t, m, 3), m.g[3][1],
                                    FindIter(JsonArrayItemRe, Group(t, m, 3), 0),
                                    1, pii_type)
                 ELSE results
         IN JsonLoop(next, t, ms, j + 1)

\* token=VALUE, secret=VALUE in plain text
RECURSIVE TokenLoop(_, _, _, _)
TokenLoop(results, t, ms, j) ==
    IF j > Len(ms) THEN results
    ELSE TokenLoop(AppendGroup(results, t, ms[j], 2, 0, "CREDENTIAL", 8500),
                   t, ms, j + 1)

\* _detect_regex(text): raw matches, may overlap
_detect_regex(t) ==
    LET r1 == PatternLoop(t, 1) \o UrlEmails(t)
        r2 == JsonLoop(r1, t, FindIter(JsonRe, t, 0), 1)
    IN TokenLoop(r2, t, FindIter(TokenRe, t, 0), 1)

(***************************************************************************)
(* Layer 2: Presidio                                                       *)
(***************************************************************************)

\* str methods used by the NER quality filters
RECURSIVE LStrip(_), RStrip(_)
LStrip(s) == IF Len(s) > 0 /\ Chr(s, 0) \in Space THEN LStrip(Slice(s, 1, Len(s))) ELSE s

RStrip(s) ==
    IF Len(s) > 0 /\ Chr(s, Len(s) - 1) \in Space
    THEN RStrip(Slice(s, 0, Len(s) - 1)) ELSE s

\* nothing stripped
StripNothing(s) == s

Strip(s) == LStrip(RStrip(s))

Chars(s) == {Chr(s, i) : i \in 0..(Len(s) - 1)}

\* sub in s, for a one-character sub
Contains(s, c) == c \in Chars(s)

\* sub in s
HasSubstring(s, sub) ==
    \E i \in 0..(Len(s) - Len(sub)) : Slice(s, i, i + Len(sub)) = sub

IsUpperStr(s) == Chars(s) \cap Upper # {} /\ Chars(s) \cap Lower = {}

\* len(s.split())
WordCount(s) ==
    Cardinality({i \in 0..(Len(s) - 1) :
                   Chr(s, i) \notin Space /\ (i = 0 \/ Chr(s, i - 1) \in Space)})

_PRESIDIO_TYPE_MAP == <<
    <<"PERSON", "PERSON">>, <<"LOCATION", "LOCATION">>,
    <<"ORGANIZATION", "ORGANIZATION">>, <<"EMAIL_ADDRESS", "EMAIL">>,
    <<"PHONE_NUMBER", "PHONE">>, <<"US_SSN", "SSN">>,
    <<"CREDIT_CARD", "CREDIT_CARD">>, <<"IBAN_CODE", "IBAN">>,
    <<"IP_ADDRESS", "IP_ADDRESS">>, <<"NRP", "PERSON">>,
    <<"MEDICAL_LICENSE", "MEDICAL_RECORD">>,
    <<"US_DRIVER_LICENSE", "DRIVERS_LICENSE">>, <<"US_PASSPORT", "PASSPORT">>,
    <<"UK_NHS", "MEDICAL_RECORD">>, <<"US_BANK_NUMBER", "BANK_ACCOUNT">>,
    <<"US_ITIN", "SSN">>, <<"AU_ABN", "ORGANIZATION">>,
    <<"AU_ACN", "ORGANIZATION">>, <<"AU_TFN", "SSN">>,
    <<"AU_MEDICARE", "MEDICAL_RECORD">>, <<"IN_AADHAAR", "AADHAAR">>,
    <<"IN_PAN", "PAN">>, <<"IN_ADDRESS", "ADDRESS">> >>

\* _PRESIDIO_TYPE_MAP.get(label); "" stands for None
PresidioType(label) ==
    LET hit == {i \in 1..Len(_PRESIDIO_TYPE_MAP) : _PRESIDIO_TYPE_MAP[i][1] = label}
    IN IF hit = {} THEN "" ELSE _PRESIDIO_TYPE_MAP[CHOOSE i \in hit : TRUE][2]

_NER_BLACKLIST == {
    "ip", "tcp", "udp", "dns", "ftp", "smtp", "imap", "pop3", "http",
    "https", "ssh", "ssl", "tls", "cors", "rest", "graphql", "oauth",
    "saml", "ldap", "snmp", "mqtt", "grpc", "websocket",
    "json", "xml", "html", "css", "csv", "pdf", "yaml", "toml", "svg",
    "png", "jpg", "gif", "mp4", "wav",
    "api", "api_key", "api key", "url", "uri", "sql", "jwt", "uuid",
    "guid", "regex", "cron", "ascii", "utf", "utf-8", "utf8", "iso",
    "ssn", "vin", "iban", "bic", "ein", "pan", "upi", "otp", "pin",
    "mac", "nfc", "rfid", "gps",
    "unix", "linux", "macos", "windows", "docker", "nginx", "redis",
    "kafka", "kubernetes", "git", "npm", "pip", "aws", "gcp", "azure",
    "utc", "gmt", "est", "pst", "cst", "mst", "ist", "bst", "cet",
    "aest", "jst", "kst",
    "win64", "win32", "x64", "x86", "x86_64", "arm64", "amd64",
    "intel", "mozilla",
    "social security", "the", "end",
    "nw", "ne", "sw", "se", "n", "s", "e", "w"}

_ORG_PHRASE_BLACKLIST == {
    "social security", "third-party monitoring systems",
    "third party monitoring systems", "error messages",
    "stack traces", "crash reports", "error logs"}

HexLike == Digit \cup {"a", "b", "c", "d", "e", "f", "A", "B", "C", "D", "E", "F",
                       "-", "_", " "}

_looks_like_person(value) ==
    LET v == Strip(value)
    IN IF v = "" \/ Chars(v) \cap Alpha = {} THEN FALSE
       ELSE IF Len(v) < 6 /\ IsUpperStr(v) /\ ~Contains(v, " ") THEN FALSE
       ELSE IF Contains(v, "=") \/ Contains(v, ":") THEN FALSE
       ELSE IF WordCount(v) = 1 /\ Chr(v, 0) \in Lower THEN FALSE
       ELSE IF Chars(v) \subseteq HexLike THEN FALSE
       ELSE IF Chars(v) \cap Digit # {} THEN FALSE
       ELSE TRUE

OrgWords == {"inc", "ltd", "corp", "llc", "co", "group", "bank", "systems"}

_looks_like_organization(value) ==
    LET v == Strip(value)
        low == LowerStr(v)
    IN IF low \in _ORG_PHRASE_BLACKLIST THEN FALSE
       ELSE IF ~Contains(v, " ") /\ Len(v) <= 5 /\ IsUpperStr(v) THEN FALSE
       ELSE IF Len(v) > 15 /\ Chars(v) \subseteq (Alpha \cup Digit \cup {"+", "/", "="})
            THEN FALSE
       ELSE IF Chars(v) \cap Digit # {} /\ ~\E w \in OrgWords : HasSubstring(low, w)
            THEN FALSE
       ELSE TRUE

\* \s[-]\s (the en and em dashes lie outside the alphabet of the model's texts)
PersonSepRe == Cat(<<In(Space), In({"-"}), In(Space)>>)

\* round(score, 2), for scores that are no tie between two hundredths
Round2(score) == ((score + 50) \div 100) * 100

\* the trimmed value with the end of the analyzer's span
PresidioEntityEndKept(t, result) ==
    LET pii_type == PresidioType(result.entity_type)
        raw == Slice(t, result.start, result.end)
        sep == FindIter(PersonSepRe, raw, 0)
        trim == pii_type = "PERSON" /\ sep # <<>>
        value == IF trim THEN Slice(raw, 0, sep[1].s) ELSE raw
    IN IF pii_type = "" THEN <<>>
       ELSE IF result.score < 6000 THEN <<>>
       ELSE IF Strip(LowerStr(raw)) \in _NER_BLACKLIST THEN <<>>
       ELSE IF pii_type = "PERSON" /\ ~_looks_like_person(value) THEN <<>>
       ELSE IF pii_type = "ORGANIZATION" /\ ~_looks_like_organization(value) THEN <<>>
       ELSE IF pii_type = "EMAIL" /\ (Contains(value, "/") \/ Contains(value, "?"))
            THEN <<>>
       ELSE <<DetectedEntity(result.start, result.end, pii_type, value,
                             Round2(result.score), PRESIDIO)>>

\* The entity _detect_presidio makes of one analyzer result, or <<>> when a
\* quality filter drops it.
PresidioEntity(t, result) ==
    LET pii_type == PresidioType(result.entity_type)
        raw == Slice(t, result.start, result.end)
        sep == FindIter(PersonSepRe, raw, 0)
        trim == pii_type = "PERSON" /\ sep # <<>>
        value == IF trim THEN Slice(raw, 0, sep[1].s) ELSE raw
        result_end == IF trim THEN result.start + Len(value) ELSE result.end
    IN IF pii_type = "" THEN <<>>
       ELSE IF result.score < 6000 THEN <<>>
       ELSE IF Strip(LowerStr(raw)) \in _NER_BLACKLIST THEN <<>>
       ELSE IF pii_type = "PERSON" /\ ~_looks_like_person(value) THEN <<>>
       ELSE IF pii_type = "ORGANIZATION" /\ ~_looks_like_organization(value) THEN <<>>
       ELSE IF pii_type = "EMAIL" /\ (Contains(value, "/") \/ Contains(value, "?"))
            THEN <<>>
       ELSE <<DetectedEntity(result.start, result_end, pii_type, value,
                             Round2(result.score), PRESIDIO)>>

\* _detect_presidio(text), given what analyzer.analyze(text, "en") returned
RECURSIVE _detect_presidio(_, _)
_detect_presidio(t, results) ==
    IF results = <<>> THEN <<>>
    ELSE PresidioEntity(t, Head(results)) \o _detect_presidio(t, Tail(results))

(***************************************************************************)
(* Merge and deduplicate                                                   *)
(***************************************************************************)

_spans_overlap(a, b) == a.start < b.end /\ b.start < a.end

_GENERIC_NER_TYPES == {"ORGANIZATION", "PERSON", "LOCATION"}

_SPECIFIC_REGEX_TYPES == {
    "SSN", "CREDIT_CARD", "IP_ADDRESS", "API_KEY", "AADHAAR", "PAN", "PHONE",
    "EMAIL", "ADDRESS", "USERNAME_PASSWORD", "CREDENTIAL"}

\* DetectedEntity.__eq__: dataclass(order=True) compares the fields that are
\* not declared compare=False, which are start and end
EntityEq(a, b) == a.start = b.start /\ a.end = b.end

\* list.remove(x): drops the first element equal to x
ListRemove(l, x) ==
    LET i == CHOOSE i \in 1..Len(l) :
                 EntityEq(l[i], x) /\ \A j \in 1..(i - 1) : ~EntityEq(l[j], x)
    IN SubSeq(l, 1, i - 1) \o SubSeq(l, i + 1, Len(l))

\* key=lambda e: (e.start, e.end)
ByStartEnd(a, b) == a.start < b.start \/ (a.start = b.start /\ a.end < b.end)

\* key=lambda e: (e.start, -(e.end - e.start))
ByStartWidest(a, b) ==
    a.start < b.start \/ (a.start = b.start /\ a.end - a.start > b.end - b.start)

KeyLess(key, a, b) == IF key = "start_end" THEN ByStartEnd(a, b) ELSE ByStartWidest(a, b)

\* sorted(l, key) and list.sort(key): stable, so x goes behind the elements
\* whose key is not greater
RECURSIVE InsertSorted(_, _, _)
InsertSorted(l, x, key) ==
    IF l = <<>> THEN <<x>>
    ELSE IF KeyLess(key, x, Head(l)) THEN <<x>> \o l
    ELSE <<Head(l)>> \o InsertSorted(Tail(l), x, key)

RECURSIVE StableSort(_, _)
StableSort(l, key) ==
    IF l = <<>> THEN <<>>
    ELSE InsertSorted(StableSort(SubSeq(l, 1, Len(l) - 1), key), l[Len(l)], key)

\* the list left in the order the layers appended to it
SortByStartEndSkipped(l) == l

SortByStartEnd(l) == StableSort(l, "start_end")

\* for existing in overlapping: if p is more confident, remove existing, append p
RECURSIVE ReplaceLoop(_, _, _)
ReplaceLoop(merged, overlapping, p_entity) ==
    IF overlapping = <<>> THEN merged
    ELSE ReplaceLoop(
             IF p_entity.confidence > Head(overlapping).confidence
             THEN Append(ListRemove(merged, Head(overlapping)), p_entity)
             ELSE merged,
             Tail(overlapping), p_entity)

\* one pass of the loop over presidio_results
MergeOne(merged, p_entity) ==
    LET has_specific ==
            \E i \in 1..Len(merged) :
                /\ _spans_overlap(merged[i], p_entity)
                /\ merged[i].source = REGEX
                /\ merged[i].pii_type \in _SPECIFIC_REGEX_TYPES
        overlapping ==
            SelectSeq(merged, LAMBDA m : _spans_overlap(m, p_entity)
                                         /\ m.pii_type = p_entity.pii_type)
    IN IF p_entity.pii_type \in _GENERIC_NER_TYPES /\ has_specific THEN merged
       ELSE IF overlapping = <<>> THEN Append(merged, p_entity)
       ELSE ReplaceLoop(merged, overlapping, p_entity)

RECURSIVE MergeLoop(_, _)
MergeLoop(merged, presidio_results) ==
    IF presidio_results = <<>> THEN merged
    ELSE MergeLoop(MergeOne(merged, Head(presidio_results)), Tail(presidio_results))

_merge_results(regex_results, presidio_results) ==
    SortByStartEnd(MergeLoop(regex_results, presidio_results))

(***************************************************************************)
(* LLM validation (tools/llm_validator.py, tools/config.py)                *)
(***************************************************************************)

LLM_CONFIDENCE_LOW == 6000

LLM_CONFIDENCE_HIGH == 8500

REDACTION_THRESHOLD == 6500

LLM_CONTEXT_CHARS == 50

\* seconds
LLM_TIMEOUT == 15

LLM_TOTAL_BUDGET == 45

Max(a, b) == IF a > b THEN a ELSE b

Min(a, b) == IF a < b THEN a ELSE b

_extract_context(t, entity) ==
    Slice(t, Max(0, entity.start - LLM_CONTEXT_CHARS),
             Min(Len(t), entity.end + LLM_CONTEXT_CHARS))

_build_user_prompt(entity, context) ==
    "Entity: \"" \o entity.value \o "\"\n"
    \o "Entity Type: " \o entity.pii_type \o "\n"
    \o "Context: \"" \o context \o "\"\n\n"
    \o "Decide if this entity is personally identifiable information.\n"
    \o "Respond ONLY in JSON:\n"
    \o "{\"is_pii\": true | false, \"confidence\": 0.0 - 1.0}"

\* What one POST to Ollama comes to: an exception of httpx or of the parse,
\* or a JSON object with is_pii and confidence.
CaughtErrors == {"ConnectError", "TimeoutException", "HTTPStatusError", "JSONDecodeError"}

\* what _call_ollama lets through: an error of httpx of a class it does not
\* catch, and the AttributeError of a response body that is not a JSON object
UncaughtErrors == {"ReadError", "AttributeError"}

LlmNone == [tag |-> "None", is_pii |-> FALSE, confidence |-> 0]

LlmRaise == [tag |-> "raise", is_pii |-> FALSE, confidence |-> 0]

LlmDict(is_pii, confidence) ==
    [tag |-> "dict", is_pii |-> is_pii, confidence |-> confidence]

\* _call_ollama(prompt), given the response to its request: the dict, None on
\* a failure it catches, or the exception it lets through
_call_ollama(response) ==
    IF response.kind \in CaughtErrors THEN LlmNone
    ELSE IF response.kind \in UncaughtErrors THEN LlmRaise
    ELSE LlmDict(response.is_pii, response.confidence)

\* the blend taken of the confidence as the LLM reported it, line 113's
\* clamp left out
_compute_final_confidence_unclamped(detector_score, llm_result) ==
    IF llm_result.tag = "None" THEN <<detector_score, None, FALSE>>
    ELSE LET llm_conf == llm_result.confidence
             final == IF llm_result.is_pii
                      THEN (6 * detector_score + 4 * llm_conf) \div 10
                      ELSE (detector_score * 3) \div 10
         IN <<final, llm_conf, TRUE>>

\* (final_confidence, llm_confidence, llm_validated); the dicts drawn here
\* hold both keys, so the defaults of llm_result.get are not taken
_compute_final_confidence(detector_score, llm_result) ==
    IF llm_result.tag = "None" THEN <<detector_score, None, FALSE>>
    ELSE LET llm_conf == Max(0, Min(10000, llm_result.confidence))
             final == IF llm_result.is_pii
                      THEN (6 * detector_score + 4 * llm_conf) \div 10
                      ELSE (detector_score * 3) \div 10
         IN <<final, llm_conf, TRUE>>

\* needs_llm without the test of the confidence band
NeedsLlmAnyConfidence(entity, available, elapsed) ==
    /\ available
    /\ elapsed < LLM_TOTAL_BUDGET

\* needs_llm without the test of the time that has passed
NeedsLlmNoBudget(entity, available, elapsed) ==
    /\ available
    /\ LLM_CONFIDENCE_LOW <= entity.confidence
    /\ entity.confidence <= LLM_CONFIDENCE_HIGH

\* needs_llm of one pass of the loop of validate_entities
NeedsLlm(entity, available, elapsed) ==
    /\ available
    /\ elapsed < LLM_TOTAL_BUDGET
    /\ LLM_CONFIDENCE_LOW <= entity.confidence
    /\ entity.confidence <= LLM_CONFIDENCE_HIGH

\* the updated entity built from the answer alone: the span and the score
\* are kept, the type and the source are the LLM's
UpdatedAsLlmFinding(entity, llm_result) ==
    LET c == _compute_final_confidence(entity.confidence, llm_result)
    IN [start |-> entity.start, end |-> entity.end, pii_type |-> "UNKNOWN",
        value |-> entity.value, confidence |-> c[1], source |-> "llm",
        pre_llm_confidence |-> entity.confidence, llm_validated |-> c[3]]

\* the updated entity of a call that returned a dict
Updated(entity, llm_result) ==
    LET c == _compute_final_confidence(entity.confidence, llm_result)
    IN [start |-> entity.start, end |-> entity.end, pii_type |-> entity.pii_type,
        value |-> entity.value, confidence |-> c[1], source |-> entity.source,
        pre_llm_confidence |-> entity.confidence, llm_validated |-> c[3]]

\* [e for e in merged if e.confidence >= REDACTION_THRESHOLD]
AboveThreshold(l) == SelectSeq(l, LAMBDA e : e.confidence >= REDACTION_THRESHOLD)

(***************************************************************************)
(* Reversible redaction (tools/redact.py)                                  *)
(***************************************************************************)

\* the loop of _resolve_overlaps over sorted_entities[1:]
RECURSIVE ResolveLoop(_, _)
ResolveLoop(resolved, rest) ==
    IF rest = <<>> THEN resolved
    ELSE LET entity == Head(rest)
             prev == resolved[Len(resolved)]
             prev_span == prev.end - prev.start
             curr_span == entity.end - entity.start
         IN ResolveLoop(
                IF entity.start < prev.end
                THEN IF curr_span > prev_span
                        \/ (curr_span = prev_span /\ entity.confidence > prev.confidence)
                     THEN [resolved EXCEPT ![Len(resolved)] = entity]
                     ELSE resolved
                ELSE Append(resolved, entity),
                Tail(rest))

\* the loop run on the list as given, without line 95's sort
_resolve_overlaps_unsorted(entities) ==
    IF entities = <<>> THEN <<>>
    ELSE ResolveLoop(<<Head(entities)>>, Tail(entities))

_resolve_overlaps(entities) ==
    IF entities = <<>> THEN <<>>
    ELSE LET sorted_entities == StableSort(entities, "start_widest")
         IN ResolveLoop(<<Head(sorted_entities)>>, Tail(sorted_entities))

\* one counter for all types
CountAtAnyType(resolved, i) == i

\* a counter that is read and never stored back
CountAtNeverStored(resolved, i) == 1

\* type_counters.get(entity.pii_type, 0) + 1 at resolved[i]
CountAt(resolved, i) ==
    Cardinality({j \in 1..i : resolved[j].pii_type = resolved[i].pii_type})

\* f"[{entity.pii_type.value}_{count}]"
Placeholder(pii_type, count) == "[" \o pii_type \o "_" \o ToString(count) \o "]"

\* the placeholders list: (start, end, placeholder) per resolved entity
Placeholders(resolved) ==
    [i \in 1..Len(resolved) |->
        <<resolved[i].start, resolved[i].end,
          Placeholder(resolved[i].pii_type, CountAt(resolved, i))>>]

\* d[key] = value on a dict held as the sequence of its items in insertion order
DictSet(d, key, value) ==
    IF \E i \in 1..Len(d) : d[i][1] = key
    THEN [i \in 1..Len(d) |-> IF d[i][1] = key THEN <<key, value>> ELSE d[i]]
    ELSE Append(d, <<key, value>>)

RECURSIVE MappingLoop(_, _, _, _)
MappingLoop(mapping, resolved, placeholders, i) ==
    IF i > Len(resolved) THEN mapping
    ELSE MappingLoop(DictSet(mapping, placeholders[i][3], resolved[i].value),
                     resolved, placeholders, i + 1)

\* for start, end, placeholder in reversed(placeholders): splice it in
RECURSIVE RewriteLoop(_, _, _)
RewriteLoop(redacted, placeholders, i) ==
    IF i < 1 THEN redacted
    ELSE RewriteLoop(Slice(redacted, 0, placeholders[i][1]) \o placeholders[i][3]
                     \o Slice(redacted, placeholders[i][2], Len(redacted)),
                     placeholders, i - 1)

\* an empty result, the text left out, for an empty entity list
redact_empty_result(t, entities) ==
    IF entities = <<>>
    THEN [redacted_text |-> "", mapping |-> <<>>, entity_count |-> 0]
    ELSE LET resolved == _resolve_overlaps(entities)
             placeholders == Placeholders(resolved)
         IN [redacted_text |-> RewriteLoop(t, placeholders, Len(placeholders)),
             mapping |-> MappingLoop(<<>>, resolved, placeholders, 1),
             entity_count |-> Len(resolved)]

\* redact(text, entities): RedactionResult
redact(t, entities) ==
    IF entities = <<>>
    THEN [redacted_text |-> t, mapping |-> <<>>, entity_count |-> 0]
    ELSE LET resolved == _resolve_overlaps(entities)
             placeholders == Placeholders(resolved)
         IN [redacted_text |-> RewriteLoop(t, placeholders, Len(placeholders)),
             mapping |-> MappingLoop(<<>>, resolved, placeholders, 1),
             entity_count |-> Len(resolved)]

\* str.replace(old, new): every occurrence of old, left to right, once each
RECURSIVE StrReplace(_, _, _)
StrReplace(s, old, new) ==
    IF Len(s) < Len(old) THEN s
    ELSE IF Slice(s, 0, Len(old)) = old
    THEN new \o StrReplace(Slice(s, Len(old), Len(s)), old, new)
    ELSE Chr(s, 0) \o StrReplace(Slice(s, 1, Len(s)), old, new)

RECURSIVE DeredactLoop(_, _, _)
DeredactLoop(result, mapping, i) ==
    IF i > Len(mapping) THEN result
    ELSE DeredactLoop(StrReplace(result, mapping[i][1], mapping[i][2]), mapping, i + 1)

deredact(t, mapping) == DeredactLoop(t, mapping, 1)

(***************************************************************************)
(* The pipeline as a state machine: detect(text, use_presidio, use_llm),   *)
(* a second detect call on the same input, redact and deredact.            *)
(***************************************************************************)

VARIABLES
    text, use_presidio, use_llm,    \* the arguments of detect
    pc,                             \* where the caller stands
    _analyzer,                      \* the module-level Presidio handle
    ner_answer,                     \* what the analyzer answers for text
    regex_results, presidio_results,
    merged,                         \* detect's list before validation
    vi, result, ollama_available, budget_elapsed,  \* validate_entities' locals
    calls,                          \* the _call_ollama calls of this invocation
    oracle,                         \* prompt -> what _call_ollama came to
    out,                            \* what detect returned or raised
    first,                          \* the outcome of the first detect call
    entities, resolved, redaction,  \* redact's argument, resolved list, result
    restored,                       \* what deredact returned
    callers                         \* the threads inside _get_analyzer

vars == <<text, use_presidio, use_llm, pc, _analyzer, ner_answer, regex_results,
          presidio_results, merged, vi, result, ollama_available, budget_elapsed,
          calls, oracle, out, first, entities, resolved, redaction, restored,
          callers>>

\* the inputs of the pipeline
Texts == {
    "Al@b.co",
    "[EMAIL_1] Al@b.co",
    "card 4111-1111-1111-1111 expired",
    "Bob 123456789",
    "Al@b.co or c@d.co",
    "Intel - x",
    "license A1234567",
    "",
    " \t"}

\* the longest run of blanks between a date and the word beside it
MaxPad == 38

RECURSIVE Spaces(_)
Spaces(n) == IF n = 0 THEN "" ELSE " " \o Spaces(n - 1)

\* a date with one word before it or after it, the gap around the 40
\* characters of the context window
DobTexts ==
    LET dates == {"01/15/1990", "1990-01-15"}
        pads == (MaxPad - 4)..MaxPad
    IN {w \o Spaces(n) \o d : w \in {"age", "page", "Born", "x"}, n \in pads, d \in dates}
       \cup
       {d \o Spaces(n) \o w : w \in {"age", "agent", "DOB", "x"}, n \in pads, d \in dates}

\* _detect_regex(t) for each text of the pipeline, computed once
RegexOf == [t \in Texts \cup DobTexts |-> _detect_regex(t)]

\* the most results one analyze call returns
MaxNer == 2

\* the spans spaCy tags: a word of the text, or all of it
NerSpans(t) ==
    {<<a, b>> \in (0..Len(t)) \X (0..Len(t)) :
        /\ a < b
        /\ \A i \in a..(b - 1) : Chr(t, i) \notin Space
        /\ (a = 0 \/ Chr(t, a - 1) \in Space)
        /\ (b = Len(t) \/ Chr(t, b) \in Space)}
    \cup {<<0, Len(t)>>}

RecognizerResult(start, end, entity_type, score) ==
    [start |-> start, end |-> end, entity_type |-> entity_type, score |-> score]

\* The results analyzer.analyze may hold: spaCy's PERSON tag (score 0.85) on
\* a word or on the whole text, and the findings of Presidio's own email and
\* credit card recognizers (score 1.0 once validated) on the spans that are
\* an email address or a card number, and of its driver licence recognizer
\* (a weak pattern, score 0.65 with a context word nearby).
NerPool(t) ==
    LET found == _detect_regex(t)
    IN {RecognizerResult(sp[1], sp[2], "PERSON", 8500) : sp \in NerSpans(t)}
       \cup {RecognizerResult(found[i].start, found[i].end, "US_DRIVER_LICENSE", 6500) :
               i \in {j \in 1..Len(found) : found[j].pii_type = "DRIVERS_LICENSE"}}
       \cup {RecognizerResult(found[i].start, found[i].end, "EMAIL_ADDRESS", 10000) :
               i \in {j \in 1..Len(found) : found[j].pii_type = "EMAIL"}}
       \cup {RecognizerResult(found[i].start, found[i].end, "CREDIT_CARD", 10000) :
               i \in {j \in 1..Len(found) : found[j].pii_type = "CREDIT_CARD"}}

RECURSIVE SeqsUpTo(_, _)
SeqsUpTo(S, n) ==
    IF n = 0 THEN {<<>>}
    ELSE LET shorter == SeqsUpTo(S, n - 1)
         IN shorter \cup {Append(q, x) : q \in shorter, x \in S}

\* how long one _call_ollama call may take, in seconds: no time, the timeout
\* of one httpx operation, or (connect, write and reads together) the budget
Durations == {0, LLM_TIMEOUT, LLM_TOTAL_BUDGET}

\* the confidence values the LLM reports
LlmConfidences == {9000}

Responses ==
    [kind : CaughtErrors \cup UncaughtErrors, is_pii : {FALSE}, confidence : {0}]
    \cup [kind : {"json"}, is_pii : BOOLEAN, confidence : LlmConfidences]

\* _analyzer = None; an engine is known by who built it (id) and by how
\* many of the custom recognizers are registered with it
NoAnalyzer == [engine |-> FALSE, recognizers |-> 0, id |-> 0]

\* the most threads that call _get_analyzer at the same time
MaxCallers == 2

Callers == 1..MaxCallers

\* no thread is inside _get_analyzer
NoCallers == [t \in Callers |-> [pc |-> "out", built |-> FALSE, registered |-> 0,
                                 got |-> NoAnalyzer]]

NoOutcome == [raised |-> FALSE, entities |-> <<>>]

NoRedaction == [redacted_text |-> "", mapping |-> <<>>, entity_count |-> 0]

\* no first detect call yet
NoFirst == [done |-> FALSE, out |-> NoOutcome, budget_elapsed |-> 0]

Init ==
    /\ text \in Texts
    /\ use_presidio \in BOOLEAN
    /\ use_llm \in BOOLEAN
    /\ pc = "call"
    /\ _analyzer = NoAnalyzer
    /\ ner_answer = <<>>
    /\ regex_results = <<>>
    /\ presidio_results = <<>>
    /\ merged = <<>>
    /\ vi = 0
    /\ result = <<>>
    /\ ollama_available = TRUE
    /\ budget_elapsed = 0
    /\ calls = <<>>
    /\ oracle = <<>>
    /\ out = NoOutcome
    /\ first = NoFirst
    /\ entities = <<>>
    /\ resolved = <<>>
    /\ redaction = NoRedaction
    /\ restored = ""
    /\ callers = NoCallers

\* detect, lines 698-712 for use_presidio = False: the regex layer alone
DetectRegexOnly ==
    /\ pc = "call"
    /\ ~use_presidio
    /\ IF Strip(text) = ""
       THEN /\ out' = [raised |-> FALSE, entities |-> <<>>]
            /\ pc' = "returned"
            /\ UNCHANGED <<regex_results, merged>>
       ELSE /\ regex_results' = RegexOf[text]
            /\ merged' = SortByStartEnd(regex_results')
            /\ pc' = "merged"
            /\ out' = out
    /\ UNCHANGED <<callers, text, use_presidio, use_llm, _analyzer, ner_answer,
                   presidio_results, vi, result, ollama_available, budget_elapsed,
                   calls, oracle, first, entities, resolved, redaction, restored>>

\* _get_analyzer: builds the engine and registers the four Indian
\* recognizers on the first call, returns the handle on every later one
_get_analyzer(analyzer) ==
    IF analyzer = NoAnalyzer THEN [engine |-> TRUE, recognizers |-> 4, id |-> 1]
    ELSE analyzer

\* detect, lines 698-710 for use_presidio = True: both layers and the merge
DetectWithPresidio ==
    /\ pc = "call"
    /\ use_presidio
    /\ IF Strip(text) = ""
       THEN /\ out' = [raised |-> FALSE, entities |-> <<>>]
            /\ pc' = "returned"
            /\ UNCHANGED <<regex_results, presidio_results, merged, _analyzer,
                           ner_answer>>
       ELSE /\ regex_results' = RegexOf[text]
            /\ _analyzer' = _get_analyzer(_analyzer)
            \* the first call builds the engine; the engine answers the same
            \* text the same way on every call
            /\ IF _analyzer = NoAnalyzer
               THEN ner_answer' \in SeqsUpTo(NerPool(text), MaxNer)
               ELSE ner_answer' = ner_answer
            /\ presidio_results' = _detect_presidio(text, ner_answer')
            /\ merged' = _merge_results(regex_results', presidio_results')
            /\ pc' = "merged"
            /\ out' = out
    /\ UNCHANGED <<callers, text, use_presidio, use_llm, vi, result, ollama_available,
                   budget_elapsed, calls, oracle, first, entities, resolved,
                   redaction, restored>>

\* detect, lines 714-720 for use_llm = False
DetectReturn ==
    /\ pc = "merged"
    /\ ~use_llm
    /\ out' = [raised |-> FALSE, entities |-> merged]
    /\ pc' = "returned"
    /\ UNCHANGED <<callers, text, use_presidio, use_llm, _analyzer, ner_answer,
                   regex_results, presidio_results, merged, vi, result,
                   ollama_available, budget_elapsed, calls, oracle, first,
                   entities, resolved, redaction, restored>>

\* ollama_available held at module level and never set back to True
ValidateStartKeepingFlag ==
    /\ pc = "merged"
    /\ use_llm
    /\ vi' = 1
    /\ result' = <<>>
    /\ budget_elapsed' = 0
    /\ calls' = <<>>
    /\ pc' = "validate"
    /\ UNCHANGED <<callers, text, use_presidio, use_llm, _analyzer, ner_answer,
                   regex_results, presidio_results, merged, ollama_available,
                   oracle, out, first, entities, resolved, redaction, restored>>

\* validate_entities, lines 131-136: the locals before the loop
ValidateStart ==
    /\ pc = "merged"
    /\ use_llm
    /\ vi' = 1
    /\ result' = <<>>
    /\ ollama_available' = TRUE
    /\ budget_elapsed' = 0
    /\ calls' = <<>>
    /\ pc' = "validate"
    /\ UNCHANGED <<callers, text, use_presidio, use_llm, _analyzer, ner_answer,
                   regex_results, presidio_results, merged, oracle, out, first,
                   entities, resolved, redaction, restored>>

\* one pass of the loop for an entity that needs no LLM
ValidateSkip ==
    /\ pc = "validate"
    /\ vi <= Len(merged)
    /\ ~NeedsLlm(merged[vi], ollama_available, budget_elapsed)
    /\ result' = Append(result, merged[vi])
    /\ vi' = vi + 1
    /\ UNCHANGED <<callers, text, use_presidio, use_llm, pc, _analyzer, ner_answer,
                   regex_results, presidio_results, merged, ollama_available,
                   budget_elapsed, calls, oracle, out, first, entities, resolved,
                   redaction, restored>>

\* oracle[prompt], when the prompt was asked before
Asked(prompt) == \E i \in 1..Len(oracle) : oracle[i][1] = prompt

Answer(prompt) == oracle[CHOOSE i \in 1..Len(oracle) : oracle[i][1] = prompt][2]

\* one pass of the loop for an entity that is sent to the LLM, the response
\* to the request being one of responses; calls keeps, per call, the index
\* of the entity, what _call_ollama came to and the context that was sent
ValidateCallWith(responses) ==
    /\ pc = "validate"
    /\ vi <= Len(merged)
    /\ NeedsLlm(merged[vi], ollama_available, budget_elapsed)
    /\ LET entity == merged[vi]
           context == _extract_context(text, entity)
           prompt == _build_user_prompt(entity, context)
       IN \E response \in responses, d \in Durations :
            LET llm_result == _call_ollama(response) IN
            \* the LLM runs at temperature 0: one prompt, one answer
            /\ Asked(prompt) => llm_result = Answer(prompt)
            /\ oracle' = IF Asked(prompt) THEN oracle
                         ELSE Append(oracle, <<prompt, llm_result>>)
            /\ calls' = Append(calls, <<vi, llm_result.tag, llm_result, context>>)
            /\ budget_elapsed' = Min(LLM_TOTAL_BUDGET, budget_elapsed + d)
            /\ IF llm_result.tag = "raise"
               THEN /\ out' = [raised |-> TRUE, entities |-> <<>>]
                    /\ pc' = "raised"
                    /\ UNCHANGED <<vi, result, ollama_available>>
               ELSE /\ ollama_available' = (llm_result.tag # "None")
                    /\ result' = Append(result,
                                        IF llm_result.tag = "None" THEN entity
                                        ELSE Updated(entity, llm_result))
                    /\ vi' = vi + 1
                    /\ UNCHANGED <<pc, out>>
    /\ UNCHANGED <<callers, text, use_presidio, use_llm, _analyzer, ner_answer,
                   regex_results, presidio_results, merged, first, entities,
                   resolved, redaction, restored>>

ValidateCall == ValidateCallWith(Responses)

\* validate_entities returns; detect, lines 717-720, applies the threshold
ValidateReturn ==
    /\ pc = "validate"
    /\ vi > Len(merged)
    /\ out' = [raised |-> FALSE, entities |-> AboveThreshold(result)]
    /\ pc' = "returned"
    /\ UNCHANGED <<callers, text, use_presidio, use_llm, _analyzer, ner_answer,
                   regex_results, presidio_results, merged, vi, result,
                   ollama_available, budget_elapsed, calls, oracle, first,
                   entities, resolved, redaction, restored>>

\* the caller keeps what the first call came to and calls detect again with
\* the same arguments
DetectAgain ==
    /\ pc \in {"returned", "raised"}
    /\ ~first.done
    /\ first' = [done |-> TRUE, out |-> out, budget_elapsed |-> budget_elapsed]
    /\ pc' = "call"
    /\ out' = NoOutcome
    /\ regex_results' = <<>>
    /\ presidio_results' = <<>>
    /\ merged' = <<>>
    /\ UNCHANGED <<callers, text, use_presidio, use_llm, _analyzer, ner_answer, vi, result,
                   ollama_available, budget_elapsed, calls, oracle, entities,
                   resolved, redaction, restored>>

\* redact(text, entities), on the list detect returned or on the list the
\* caller made up itself
Redact ==
    /\ pc \in {"returned", "given"}
    /\ entities' = IF pc = "returned" THEN out.entities ELSE entities
    /\ resolved' = _resolve_overlaps(entities')
    /\ redaction' = redact(text, entities')
    /\ pc' = "redacted"
    /\ UNCHANGED <<callers, text, use_presidio, use_llm, _analyzer, ner_answer,
                   regex_results, presidio_results, merged, vi, result,
                   ollama_available, budget_elapsed, calls, oracle, out, first,
                   restored>>

\* deredact(redacted_text, mapping) on what redact returned
Deredact ==
    /\ pc = "redacted"
    /\ restored' = deredact(redaction.redacted_text, redaction.mapping)
    /\ pc' = "restored"
    /\ UNCHANGED <<callers, text, use_presidio, use_llm, _analyzer, ner_answer,
                   regex_results, presidio_results, merged, vi, result,
                   ollama_available, budget_elapsed, calls, oracle, out, first,
                   entities, resolved, redaction>>

Next ==
    \/ DetectRegexOnly
    \/ DetectWithPresidio
    \/ DetectReturn
    \/ ValidateStart
    \/ ValidateSkip
    \/ ValidateCall
    \/ ValidateReturn
    \/ DetectAgain
    \/ Redact
    \/ Deredact

Spec == Init /\ [][Next]_vars

(***************************************************************************)
(* redact and deredact on entity lists of the caller's own making: any     *)
(* spans of the text, in any order, overlapping at will.                   *)
(***************************************************************************)

RedactTexts == {"aba"}

\* the most entities in a list handed to redact
MaxEntities == 3

\* (pii_type, confidence) of the entities handed to redact
NaiveKinds == {<<"EMAIL", 9000>>, <<"SSN", 4000>>}

NaivePool(t) ==
    {DetectedEntity(sp[1], sp[2], k[1], Slice(t, sp[1], sp[2]), k[2], REGEX) :
        sp \in {ab \in (0..Len(t)) \X (0..Len(t)) : ab[1] < ab[2]},
        k \in NaiveKinds}

InitRedact ==
    /\ text \in RedactTexts
    /\ entities \in SeqsUpTo(NaivePool(text), MaxEntities)
    /\ pc = "given"
    /\ use_presidio = FALSE
    /\ use_llm = FALSE
    /\ _analyzer = NoAnalyzer
    /\ ner_answer = <<>>
    /\ regex_results = <<>>
    /\ presidio_results = <<>>
    /\ merged = <<>>
    /\ vi = 0
    /\ result = <<>>
    /\ ollama_available = TRUE
    /\ budget_elapsed = 0
    /\ calls = <<>>
    /\ oracle = <<>>
    /\ out = NoOutcome
    /\ first = NoFirst
    /\ resolved = <<>>
    /\ redaction = NoRedaction
    /\ restored = ""
    /\ callers = NoCallers

NextRedact ==
    \/ Redact
    \/ Deredact

SpecRedact == InitRedact /\ [][NextRedact]_vars

(***************************************************************************)
(* redact on entity lists whose recorded values may differ from the text   *)
(* at their spans.                                                         *)
(***************************************************************************)

\* the most entities in such a list
MaxCorrupt == 2

\* a value that is no substring of the texts
CorruptValue == "zz"

CorruptPool(t) ==
    {DetectedEntity(sp[1], sp[2], "EMAIL", v, 9000, REGEX) :
        sp \in {ab \in (0..Len(t)) \X (0..Len(t)) : ab[1] < ab[2]},
        v \in {CorruptValue}} \cup
    {e \in NaivePool(t) : e.pii_type = "EMAIL"}

InitCorrupt ==
    /\ text \in RedactTexts
    /\ entities \in SeqsUpTo(CorruptPool(text), MaxCorrupt)
    /\ pc = "given"
    /\ use_presidio = FALSE
    /\ use_llm = FALSE
    /\ _analyzer = NoAnalyzer
    /\ ner_answer = <<>>
    /\ regex_results = <<>>
    /\ presidio_results = <<>>
    /\ merged = <<>>
    /\ vi = 0
    /\ result = <<>>
    /\ ollama_available = TRUE
    /\ budget_elapsed = 0
    /\ calls = <<>>
    /\ oracle = <<>>
    /\ out = NoOutcome
    /\ first = NoFirst
    /\ resolved = <<>>
    /\ redaction = NoRedaction
    /\ restored = ""
    /\ callers = NoCallers

SpecCorrupt == InitCorrupt /\ [][NextRedact]_vars

(***************************************************************************)
(* validate_entities and detect's threshold filter on entity lists of any  *)
(* confidence, the LLM reporting confidences inside and outside [0, 1].    *)
(***************************************************************************)

ValidateTexts == {"ab cd"}

\* the most entities in a list handed to validate_entities
MaxValidated == 2

\* the confidences of those entities: the two ends of the band, the values
\* next to them and one in between
ValidatedConfidences == {5900, 6000, 7500, 8500, 8600}

\* the confidences the LLM reports: -0.5, 0.5 and 1.5
ReportedConfidences == {0 - 5000, 5000, 15000}

WideResponses ==
    [kind : CaughtErrors \cup UncaughtErrors, is_pii : {FALSE}, confidence : {0}]
    \cup [kind : {"json"}, is_pii : BOOLEAN, confidence : ReportedConfidences]

ValidatePool(t) ==
    {DetectedEntity(sp[1], sp[2], "PERSON", Slice(t, sp[1], sp[2]), c, PRESIDIO) :
        sp \in NerSpans(t) \ {<<0, Len(t)>>}, c \in ValidatedConfidences}

InitValidate ==
    /\ text \in ValidateTexts
    /\ merged \in {SortByStartEnd(l) : l \in SeqsUpTo(ValidatePool(text), MaxValidated)}
    /\ pc = "merged"
    /\ use_presidio = FALSE
    /\ use_llm = TRUE
    /\ _analyzer = NoAnalyzer
    /\ ner_answer = <<>>
    /\ regex_results = <<>>
    /\ presidio_results = <<>>
    /\ vi = 0
    /\ result = <<>>
    /\ ollama_available = TRUE
    /\ budget_elapsed = 0
    /\ calls = <<>>
    /\ oracle = <<>>
    /\ out = NoOutcome
    /\ first = NoFirst
    /\ entities = <<>>
    /\ resolved = <<>>
    /\ redaction = NoRedaction
    /\ restored = ""
    /\ callers = NoCallers

ValidateCallWide == ValidateCallWith(WideResponses)

NextValidate ==
    \/ ValidateStart
    \/ ValidateSkip
    \/ ValidateCallWide
    \/ ValidateReturn

SpecValidate == InitValidate /\ [][NextValidate]_vars

(***************************************************************************)
(* _get_analyzer called by several threads at once.  No lock is held, so a *)
(* thread may be suspended between any two statements.                     *)
(***************************************************************************)

\* create_indian_recognizers() returns four recognizers
IndianRecognizers == 4

InitAnalyzer ==
    /\ text \in {"Bob 123456789"}
    /\ use_presidio = TRUE
    /\ use_llm = FALSE
    /\ pc = "call"
    /\ _analyzer = NoAnalyzer
    /\ ner_answer = <<>>
    /\ regex_results = <<>>
    /\ presidio_results = <<>>
    /\ merged = <<>>
    /\ vi = 0
    /\ result = <<>>
    /\ ollama_available = TRUE
    /\ budget_elapsed = 0
    /\ calls = <<>>
    /\ oracle = <<>>
    /\ out = NoOutcome
    /\ first = NoFirst
    /\ entities = <<>>
    /\ resolved = <<>>
    /\ redaction = NoRedaction
    /\ restored = ""
    /\ callers = [t \in Callers |-> [pc |-> "test", built |-> FALSE,
                                     registered |-> 0, got |-> NoAnalyzer]]

\* line 432: if _analyzer is None
AnalyzerTest(t) ==
    /\ callers[t].pc = "test"
    /\ callers' = [callers EXCEPT ![t].pc =
                       IF _analyzer = NoAnalyzer THEN "build" ELSE "return"]
    /\ UNCHANGED <<text, use_presidio, use_llm, pc, _analyzer, ner_answer,
                   regex_results, presidio_results, merged, vi, result,
                   ollama_available, budget_elapsed, calls, oracle, out, first,
                   entities, resolved, redaction, restored>>

\* lines 433-441, right-hand side: the engine is built
AnalyzerBuild(t) ==
    /\ callers[t].pc = "build"
    /\ callers' = [callers EXCEPT ![t].pc = "store", ![t].built = TRUE]
    /\ UNCHANGED <<text, use_presidio, use_llm, pc, _analyzer, ner_answer,
                   regex_results, presidio_results, merged, vi, result,
                   ollama_available, budget_elapsed, calls, oracle, out, first,
                   entities, resolved, redaction, restored>>

\* line 441: _analyzer = the engine this thread built
AnalyzerStore(t) ==
    /\ callers[t].pc = "store"
    /\ _analyzer' = [engine |-> TRUE, recognizers |-> 0, id |-> t]
    /\ callers' = [callers EXCEPT ![t].pc = "register"]
    /\ UNCHANGED <<text, use_presidio, use_llm, pc, ner_answer, regex_results,
                   presidio_results, merged, vi, result, ollama_available,
                   budget_elapsed, calls, oracle, out, first, entities, resolved,
                   redaction, restored>>

\* lines 445-446: one pass of the loop; _analyzer is read anew in each pass
AnalyzerRegister(t) ==
    /\ callers[t].pc = "register"
    /\ IF callers[t].registered < IndianRecognizers
       THEN /\ _analyzer' = [_analyzer EXCEPT !.recognizers = @ + 1]
            /\ callers' = [callers EXCEPT ![t].registered = @ + 1]
       ELSE /\ callers' = [callers EXCEPT ![t].pc = "return"]
            /\ UNCHANGED _analyzer
    /\ UNCHANGED <<text, use_presidio, use_llm, pc, ner_answer, regex_results,
                   presidio_results, merged, vi, result, ollama_available,
                   budget_elapsed, calls, oracle, out, first, entities, resolved,
                   redaction, restored>>

\* line 448: return _analyzer
AnalyzerReturn(t) ==
    /\ callers[t].pc = "return"
    /\ callers' = [callers EXCEPT ![t].pc = "out", ![t].got = _analyzer]
    /\ UNCHANGED <<text, use_presidio, use_llm, pc, _analyzer, ner_answer,
                   regex_results, presidio_results, merged, vi, result,
                   ollama_available, budget_elapsed, calls, oracle, out, first,
                   entities, resolved, redaction, restored>>

NextAnalyzer ==
    \E t \in Callers :
        \/ AnalyzerTest(t)
        \/ AnalyzerBuild(t)
        \/ AnalyzerStore(t)
        \/ AnalyzerRegister(t)
        \/ AnalyzerReturn(t)

SpecAnalyzer == InitAnalyzer /\ [][NextAnalyzer]_vars

(***************************************************************************)
(* The structured detector alone, on dates with a word nearby.             *)
(***************************************************************************)

InitDob ==
    /\ text \in DobTexts
    /\ use_presidio = FALSE
    /\ use_llm = FALSE
    /\ pc = "call"
    /\ _analyzer = NoAnalyzer
    /\ ner_answer = <<>>
    /\ regex_results = <<>>
    /\ presidio_results = <<>>
    /\ merged = <<>>
    /\ vi = 0
    /\ result = <<>>
    /\ ollama_available = TRUE
    /\ budget_elapsed = 0
    /\ calls = <<>>
    /\ oracle = <<>>
    /\ out = NoOutcome
    /\ first = NoFirst
    /\ entities = <<>>
    /\ resolved = <<>>
    /\ redaction = NoRedaction
    /\ restored = ""
    /\ callers = NoCallers

NextDob == DetectRegexOnly \/ DetectReturn

SpecDob == InitDob /\ [][NextDob]_vars

(***************************************************************************)
(* The properties of the pipeline                                          *)
(***************************************************************************)

\* C1: for every text and every entity list detect returned for it,
\* deredact applied to redact's redacted_text and mapping gives back the
\* text exactly.
RoundTripRestoresText == pc = "restored" => restored = text

\* C2: whatever list redact is handed, overlapping at will, the resolved
\* sequence it rewrites is pairwise span-disjoint and strictly ordered by
\* start.
ResolvedDisjointAndOrdered ==
    pc \in {"redacted", "restored"} =>
        \A i, j \in 1..Len(resolved) :
            i < j => /\ resolved[i].start < resolved[j].start
                     /\ resolved[i].end <= resolved[j].start

\* a list given out of order with two overlapping entities, of which two
\* entities are left
ResolvedFromOverlappingInput ==
    /\ pc = "redacted"
    /\ Len(resolved) >= 2
    /\ \E i, j \in 1..Len(entities) :
        /\ i < j
        /\ entities[j].start < entities[i].start
    /\ \E i, j \in 1..Len(entities) :
        /\ i # j
        /\ entities[i].start < entities[j].start
        /\ entities[j].start < entities[i].end

\* C3: when every oracle call fails, detect with validation returns the
\* list, entity for entity, that detect without validation returns for the
\* same text and NER setting, which is the merged list.
FailOpenReturnsMerged ==
    (/\ pc = "returned"
     /\ use_llm
     /\ calls # <<>>
     /\ \A c \in 1..Len(calls) : calls[c][2] = "None")
        => out.entities = merged

\* C4: a PERSON, ORGANIZATION or LOCATION entity of the NER layer whose span
\* overlaps an entity of a specific type found by the regex layer is not in
\* the merge output, in whatever order the NER entities come.
GenericNerSuppressed ==
    (pc = "merged" /\ use_presidio) =>
        \A i \in 1..Len(presidio_results), j \in 1..Len(regex_results) :
            (/\ presidio_results[i].pii_type \in {"PERSON", "ORGANIZATION", "LOCATION"}
             /\ regex_results[j].pii_type \in
                    {"SSN", "CREDIT_CARD", "IP_ADDRESS", "API_KEY", "AADHAAR", "PAN",
                     "PHONE", "EMAIL", "ADDRESS", "USERNAME_PASSWORD", "CREDENTIAL"}
             /\ presidio_results[i].start < regex_results[j].end
             /\ regex_results[j].start < presidio_results[i].end)
                => \A k \in 1..Len(merged) : merged[k] # presidio_results[i]

\* C5: in the list _merge_results makes of the regex layer's and the NER
\* layer's output no two entities have the same (start, end, pii_type).
MergeHasNoDuplicate ==
    (pc = "merged" /\ use_presidio) =>
        \A i, j \in 1..Len(merged) :
            i < j => <<merged[i].start, merged[i].end, merged[i].pii_type>>
                     # <<merged[j].start, merged[j].end, merged[j].pii_type>>

\* C6: every list detect returns, with or without the NER layer, with or
\* without validation, is sorted ascending by (start, end).
ReturnedSortedByStartEnd ==
    pc = "returned" =>
        \A i \in 1..(Len(out.entities) - 1) :
            \/ out.entities[i].start < out.entities[i + 1].start
            \/ /\ out.entities[i].start = out.entities[i + 1].start
               /\ out.entities[i].end <= out.entities[i + 1].end

\* detect returned, from both layers, entities that the regex layer had
\* found in another order
ReturnedAfterReordering ==
    /\ pc = "returned"
    /\ use_presidio
    /\ presidio_results # <<>>
    /\ Len(out.entities) >= 3
    /\ \E i, j \in 1..Len(regex_results) :
        /\ i < j
        /\ regex_results[j].start = regex_results[i].start
        /\ regex_results[j].end < regex_results[i].end

\* C7 as stated: two detect calls on the same input, the NER layer and the
\* oracle answering the second as they answered the first, return the same
\* entity list in the same order.
SecondCallSameAsFirst ==
    (first.done /\ ~first.out.raised /\ pc = "returned")
        => out.entities = first.out.entities

\* C7 as amended: the second call comes to what the first came to, the same
\* list in the same order, provided the total time budget of validation ran
\* out in neither call.
SecondCallSameWithinBudget ==
    (/\ first.done
     /\ pc \in {"returned", "raised"}
     /\ first.budget_elapsed < LLM_TOTAL_BUDGET
     /\ budget_elapsed < LLM_TOTAL_BUDGET)
        => out = first.out

\* the first call built the analyzer and the second reused it, both asked
\* the oracle, which took longer in one call than in the other
SecondCallReusedHandle ==
    /\ first.done
    /\ pc = "returned"
    /\ use_presidio
    /\ use_llm
    /\ _analyzer # NoAnalyzer
    /\ ner_answer # <<>>
    /\ Len(calls) >= 2
    /\ out.entities # <<>>
    /\ \E i \in 1..Len(out.entities) : out.entities[i].llm_validated
    /\ first.budget_elapsed < LLM_TOTAL_BUDGET
    /\ budget_elapsed < LLM_TOTAL_BUDGET
    /\ first.budget_elapsed # budget_elapsed

\* the placeholder redact owes resolved[i]: its type and its rank among the
\* resolved entities of that type, from the left
OwedPlaceholder(i) ==
    "[" \o resolved[i].pii_type \o "_"
    \o ToString(Len(SelectSeq(SubSeq(resolved, 1, i),
                             LAMBDA e : e.pii_type = resolved[i].pii_type)))
    \o "]"

\* by how much the placeholders owed to resolved[1..i] lengthen the text
RECURSIVE Lengthened(_)
Lengthened(i) ==
    IF i = 0 THEN 0
    ELSE Lengthened(i - 1) + Len(OwedPlaceholder(i))
         - (resolved[i].end - resolved[i].start)

\* C8: the k-th resolved entity of type T, counted from the left and from 1,
\* gets the placeholder [T_k]: the mapping takes [T_k] to the entity's value
\* and [T_k] stands in the redacted text where the entity stood.
PlaceholderNumberedPerType ==
    pc \in {"redacted", "restored"} =>
        \A i \in 1..Len(resolved) :
            /\ \E m \in 1..Len(redaction.mapping) :
                redaction.mapping[m] = <<OwedPlaceholder(i), resolved[i].value>>
            /\ \A m \in 1..Len(redaction.mapping) :
                redaction.mapping[m][1] = OwedPlaceholder(i)
                    => redaction.mapping[m][2] = resolved[i].value
            /\ Slice(redaction.redacted_text,
                     resolved[i].start + Lengthened(i - 1),
                     resolved[i].start + Lengthened(i - 1) + Len(OwedPlaceholder(i)))
                = OwedPlaceholder(i)

\* three entities are left, of one type, another and the first again, from a
\* list that was not given from left to right
PlaceholdersOfTwoTypes ==
    /\ pc = "redacted"
    /\ Len(resolved) = 3
    /\ resolved[1].pii_type = resolved[3].pii_type
    /\ resolved[2].pii_type # resolved[1].pii_type
    /\ entities[1].start > entities[2].start
    /\ redaction.entity_count = 3

\* C9 as stated: the mapping of one redact call is a bijection: a placeholder
\* key per resolved entity, and no two placeholders with the same original
\* substring.
MappingIsBijection ==
    pc \in {"redacted", "restored"} =>
        /\ Len(redaction.mapping) = Len(resolved)
        /\ \A a, b \in 1..Len(redaction.mapping) :
            a # b => /\ redaction.mapping[a][1] # redaction.mapping[b][1]
                     /\ redaction.mapping[a][2] # redaction.mapping[b][2]

\* C9 as amended: each resolved entity has exactly one placeholder key, no
\* two entities share a key, and two placeholders map to the same original
\* substring exactly when their two entities have the same value.
MappingOneKeyPerEntity ==
    pc \in {"redacted", "restored"} =>
        /\ Len(redaction.mapping) = Len(resolved)
        /\ redaction.entity_count = Len(resolved)
        /\ \A a, b \in 1..Len(redaction.mapping) :
            a # b =>
                /\ redaction.mapping[a][1] # redaction.mapping[b][1]
                /\ (redaction.mapping[a][2] = redaction.mapping[b][2])
                    <=> (resolved[a].value = resolved[b].value)

\* entities of one type with the same value at two places and another value
\* at a third
SameValueTwice ==
    /\ pc = "redacted"
    /\ \E a, b, c \in 1..Len(resolved) :
        /\ a < b
        /\ resolved[a].pii_type = resolved[b].pii_type
        /\ resolved[a].value = resolved[b].value
        /\ resolved[c].pii_type = resolved[a].pii_type
        /\ resolved[c].value # resolved[a].value

\* C10: in one validate_entities invocation no oracle call follows the first
\* one that failed, and the entity of the failed call and every later entity
\* are returned as they came in: confidence unchanged, llm_validated false.
PassThroughAfterFailure ==
    \A c \in 1..Len(calls) :
        calls[c][2] # "dict" =>
            /\ c = Len(calls)
            /\ pc \in {"returned", "raised"} =>
                /\ ~out.raised
                /\ Len(result) = Len(merged)
                /\ \A j \in calls[c][1]..Len(merged) :
                    /\ result[j] = merged[j]
                    /\ ~result[j].llm_validated

\* C11: validate_entities asks the oracle about an entity only if the
\* entity's confidence lies in the band 0.60 to 0.85; an entity outside the
\* band is returned as it came in and no call is made for it.
OracleOnlyInBand ==
    (use_llm /\ pc \in {"validate", "returned", "raised"}) =>
        /\ \A c \in 1..Len(calls) :
            /\ 6000 <= merged[calls[c][1]].confidence
            /\ merged[calls[c][1]].confidence <= 8500
        /\ \A j \in 1..Len(result) :
            (merged[j].confidence < 6000 \/ merged[j].confidence > 8500)
                => /\ result[j] = merged[j]
                   /\ \A c \in 1..Len(calls) : calls[c][1] # j

\* validate_entities returned a list with an entity the oracle re-scored,
\* one below the band and untouched, or one above the band and untouched
OracleAskedBesideOutOfBand ==
    /\ pc = "returned"
    /\ use_llm
    /\ \E j \in 1..Len(result) : result[j].llm_validated
    /\ \E j \in 1..Len(result) :
        /\ (merged[j].confidence < 6000 \/ merged[j].confidence > 8500)
        /\ ollama_available
        /\ budget_elapsed < LLM_TOTAL_BUDGET

\* C12 as stated: an in-band entity whose oracle call succeeds is returned
\* with confidence 0.6*original + 0.4*oracle_confidence when the oracle says
\* is_pii = true and 0.3*original when it says false, with
\* pre_llm_confidence the original confidence and llm_validated true.
BlendOfReportedConfidence ==
    pc \in {"validate", "returned"} =>
        \A c \in 1..Len(calls) :
            calls[c][2] = "dict" =>
                LET j == calls[c][1]
                    original == merged[j].confidence
                    answer == calls[c][3]
                IN /\ 10 * result[j].confidence =
                        IF answer.is_pii THEN 6 * original + 4 * answer.confidence
                        ELSE 3 * original
                   /\ result[j].pre_llm_confidence = original
                   /\ result[j].llm_validated

\* C12 as amended: the same, with the oracle's confidence first clamped to
\* [0, 1].
BlendOfClampedConfidence ==
    pc \in {"validate", "returned"} =>
        \A c \in 1..Len(calls) :
            calls[c][2] = "dict" =>
                LET j == calls[c][1]
                    original == merged[j].confidence
                    answer == calls[c][3]
                    clamped == IF answer.confidence < 0 THEN 0
                               ELSE IF answer.confidence > 10000 THEN 10000
                               ELSE answer.confidence
                IN /\ 10 * result[j].confidence =
                        IF answer.is_pii THEN 6 * original + 4 * clamped
                        ELSE 3 * original
                   /\ result[j].pre_llm_confidence = original
                   /\ result[j].llm_validated

\* the oracle called an entity PII with a confidence above 1 and another
\* not PII
BlendedAboveOneAndPenalised ==
    /\ pc = "returned"
    /\ \E c \in 1..Len(calls) :
        /\ calls[c][2] = "dict"
        /\ calls[c][3].is_pii
        /\ calls[c][3].confidence > 10000
    /\ \E c \in 1..Len(calls) :
        /\ calls[c][2] = "dict"
        /\ ~calls[c][3].is_pii

\* C13: no failure of an oracle call, of whatever kind, raises an exception
\* out of validate_entities or detect; the entity of the failed call comes
\* back with its confidence unchanged and llm_validated false.
OracleFailureNeverRaises ==
    (use_llm /\ pc \in {"validate", "returned", "raised"}) =>
        \A c \in 1..Len(calls) :
            calls[c][2] # "dict" =>
                /\ pc # "raised"
                /\ ~out.raised
                /\ Len(result) >= calls[c][1]
                /\ result[calls[c][1]] = merged[calls[c][1]]

\* C14: every entity detect returns has 0 <= start < end <= len(text) and
\* value = text[start:end], the PERSON entities whose trailing clause was
\* trimmed and the entities validation made anew among them.
ReturnedValueIsSlice ==
    pc = "returned" =>
        \A i \in 1..Len(out.entities) :
            LET e == out.entities[i]
            IN /\ 0 <= e.start
               /\ e.start < e.end
               /\ e.end <= Len(text)
               /\ e.value = SubSeq(text, e.start + 1, e.end)

\* detect returned a PERSON entity that is shorter than the span the
\* analyzer gave and that validation made anew
ReturnedTrimmedAndValidated ==
    /\ pc = "returned"
    /\ \E i \in 1..Len(out.entities), k \in 1..Len(ner_answer) :
        /\ out.entities[i].pii_type = "PERSON"
        /\ out.entities[i].llm_validated
        /\ out.entities[i].start = ner_answer[k].start
        /\ out.entities[i].end < ner_answer[k].end
        /\ \A m \in 1..Len(ner_answer) : m = k

\* C15: redact does not return a redacted text and a mapping for a list
\* that holds an entity whose recorded value differs from text[start:end]:
\* it fails instead.
RedactReturnsOnlyForTrueValues ==
    pc \in {"redacted", "restored"} =>
        \A i \in 1..Len(entities) :
            entities[i].value = SubSeq(text, entities[i].start + 1, entities[i].end)

\* C16: when several threads make the first calls of _get_analyzer at the
\* same time, the engine is built at most once and every caller is handed
\* the same instance.
AnalyzerBuiltOnce ==
    /\ \A t, u \in Callers :
        (callers[t].built /\ callers[u].built) => t = u
    /\ \A t, u \in Callers :
        (callers[t].got # NoAnalyzer /\ callers[u].got # NoAnalyzer)
            => callers[t].got.id = callers[u].got.id

\* C17: the context sent to the oracle for an entity is the text from at
\* most 50 characters before the entity's span to at most 50 characters
\* after it, and it is never the whole text.
ContextIsWindowNotDocument ==
    (use_llm /\ pc \in {"validate", "returned", "raised"}) =>
        \A c \in 1..Len(calls) :
            LET e == merged[calls[c][1]]
                from == IF e.start > 50 THEN e.start - 50 ELSE 0
                to == IF e.end + 50 < Len(text) THEN e.end + 50 ELSE Len(text)
            IN /\ calls[c][4] = SubSeq(text, from + 1, to)
               /\ calls[c][4] # text

\* C18: redact(text, []) returns the text unchanged, an empty mapping and
\* an entity count of 0, whatever the text.
RedactOfNothing ==
    (pc \in {"redacted", "restored"} /\ entities = <<>>) =>
        /\ redaction.redacted_text = text
        /\ redaction.mapping = <<>>
        /\ redaction.entity_count = 0

\* redact was handed the empty list detect returned for a text
RedactedNothing ==
    /\ pc = "redacted"
    /\ entities = <<>>
    /\ out.entities = <<>>
    /\ text # ""
    /\ redaction.redacted_text # ""

\* C19: detect on an empty text or on a text of whitespace alone returns
\* the empty list and does not raise; it runs neither the analyzer nor the
\* oracle, whatever use_presidio and use_llm are.
BlankTextYieldsNothing ==
    (\A i \in 1..Len(text) : SubSeq(text, i, i) \in {" ", "\t", "\n", "\r", "\f"}) =>
        /\ pc \notin {"raised", "merged", "validate"}
        /\ ~out.raised
        /\ out.entities = <<>>
        /\ _analyzer = NoAnalyzer
        /\ ner_answer = <<>>
        /\ calls = <<>>
        /\ oracle = <<>>

\* detect returned twice for a text of whitespace, both layers switched on
BlankTextReturnedTwice ==
    /\ pc = "returned"
    /\ first.done
    /\ use_presidio
    /\ use_llm
    /\ Len(text) > 0
    /\ \A i \in 1..Len(text) : SubSeq(text, i, i) \in {" ", "\t"}

\* C20: the structured detector emits a DATE_OF_BIRTH entity for a date only
\* if one of the words born, birth, DOB, date of birth, birthday, birthdate,
\* age stands, as a word of the text, within the 40 characters before the
\* date or the 40 characters after it.
DobOnlyNearKeyword ==
    \A i \in 1..Len(regex_results) :
        regex_results[i].pii_type = "DATE_OF_BIRTH" =>
            LET e == regex_results[i]
                lo == Max(0, e.start - 40)
                hi == Min(Len(text), e.end + 40)
            IN \E k \in {"born", "birth", "dob", "date of birth", "birthday",
                         "birthdate", "age"} :
                 \E a \in lo..hi :
                    /\ a + Len(k) <= hi
                    /\ LowerStr(Slice(text, a, a + Len(k))) = k
                    /\ ~IsWordAt(text, a - 1)
                    /\ ~IsWordAt(text, a + Len(k))

\* C21: an NER entity is in the merge output at most once, and never
\* together with another entity of its type whose span overlaps its span.
NerEntityOnceAndAlone ==
    (pc = "merged" /\ use_presidio) =>
        \A i \in 1..Len(presidio_results) :
            LET p == presidio_results[i]
                at == {k \in 1..Len(merged) : merged[k] = p}
            IN /\ Cardinality(at) <= 1
               /\ at # {} =>
                    \A m \in 1..Len(merged) :
                        (merged[m] # p /\ merged[m].pii_type = p.pii_type)
                            => ~(merged[m].start < p.end /\ p.start < merged[m].end)

\* C22: every entity of the regex layer is in the merge output unless an
\* NER entity of its own type, overlapping it and strictly more confident,
\* took its place; an entity of another type never makes it go.
RegexEntityKeptUnlessBeaten ==
    pc = "merged" =>
        \A j \in 1..Len(regex_results) :
            LET r == regex_results[j]
            IN \/ \E k \in 1..Len(merged) : merged[k] = r
               \/ \E i \in 1..Len(presidio_results) :
                    /\ presidio_results[i].pii_type = r.pii_type
                    /\ presidio_results[i].start < r.end
                    /\ r.start < presidio_results[i].end
                    /\ presidio_results[i].confidence > r.confidence

\* C23: within one invocation of validate_entities, once the time that has
\* passed has reached LLM_TOTAL_BUDGET, no pass of the loop calls the LLM:
\* each pass appends the entity of its turn, unchanged, to the result.
NoCallOnceBudgetSpent ==
    [][(pc = "validate" /\ budget_elapsed >= LLM_TOTAL_BUDGET) =>
          /\ calls' = calls
          /\ oracle' = oracle
          /\ pc' # "raised"
          /\ vi' # vi => (vi' = vi + 1 /\ result' = Append(result, merged[vi]))
          /\ vi' = vi => result' = result]_vars

\* the first of two entities used up the budget in a call that the LLM
\* answered, and the second, within the band, went through unchanged
SecondInBandPassedOnBudget ==
    /\ pc = "validate"
    /\ Len(merged) = 2
    /\ vi = 3
    /\ budget_elapsed >= LLM_TOTAL_BUDGET
    /\ ollama_available
    /\ Len(calls) = 1
    /\ calls[1][1] = 1
    /\ LLM_CONFIDENCE_LOW <= merged[2].confidence
    /\ merged[2].confidence <= LLM_CONFIDENCE_HIGH
    /\ result[2] = merged[2]

\* C24: the list validate_entities builds holds, pass after pass, one entity
\* per input entity in the order of the input, with start, end, pii_type,
\* value and source as in the input, whatever the LLM answered; the list it
\* returns has the length of the input, the entities whose confidence
\* came out below REDACTION_THRESHOLD included.
ValidatedListSameEntities ==
    (pc \in {"validate", "returned"} /\ use_llm) =>
        /\ Len(result) = vi - 1
        /\ vi <= Len(merged) + 1
        /\ pc = "returned" => Len(result) = Len(merged)
        /\ \A k \in 1..Len(result) :
            /\ result[k].start = merged[k].start
            /\ result[k].end = merged[k].end
            /\ result[k].pii_type = merged[k].pii_type
            /\ result[k].value = merged[k].value
            /\ result[k].source = merged[k].source

\* validate_entities returned two entities the LLM judged, the first of them
\* with a confidence below the threshold
ReturnedBelowThresholdKept ==
    /\ pc = "returned"
    /\ use_llm
    /\ Len(merged) = 2
    /\ Len(result) = 2
    /\ result[1].llm_validated
    /\ result[1].confidence < REDACTION_THRESHOLD
    /\ result[2].llm_validated
    /\ result[2].confidence # merged[2].confidence
    /\ Len(out.entities) = 1

\* C25: every position of the text that lies inside the span of an entity
\* handed to redact lies inside one of the resolved spans, which are the
\* spans redact puts a placeholder for: no character of an input entity is
\* left in redacted_text.
EveryEntityPositionRedacted ==
    pc \in {"redacted", "restored"} =>
        \A i \in 1..Len(entities) :
            \A p \in entities[i].start..(entities[i].end - 1) :
                \E j \in 1..Len(resolved) :
                    resolved[j].start <= p /\ p < resolved[j].end

\* C26: an entity handed to redact is missing from the resolved sequence
\* only if its span overlaps the span of a resolved entity that is wider,
\* or as wide and at least as confident.
LeftOutOnlyForBetterOverlap ==
    pc \in {"redacted", "restored"} =>
        \A i \in 1..Len(entities) :
            LET e == entities[i]
            IN \/ \E j \in 1..Len(resolved) : resolved[j] = e
               \/ \E j \in 1..Len(resolved) :
                    LET r == resolved[j]
                    IN /\ r.start < e.end
                       /\ e.start < r.end
                       /\ \/ r.end - r.start > e.end - e.start
                          \/ /\ r.end - r.start = e.end - e.start
                             /\ r.confidence >= e.confidence

\* C27: no entity _detect_presidio returns has a value that, lower-cased and
\* stripped, is in _NER_BLACKLIST; that holds of the PERSON values left
\* after the trailing " - ..." clause was cut off as well.
NoBlacklistedNerValue ==
    \A i \in 1..Len(presidio_results) :
        Strip(LowerStr(presidio_results[i].value)) \notin _NER_BLACKLIST

\* C28: the invocation of validate_entities that follows another one starts
\* with ollama_available true, whatever became of the calls of the earlier
\* one: up to its first entity within the band it has made no call and the
\* flag is true, and its first call is the call for that entity.
SecondInvocationAsksAgain ==
    (pc = "validate" /\ first.done) =>
        LET inband == {k \in 1..Len(merged) :
                          /\ LLM_CONFIDENCE_LOW <= merged[k].confidence
                          /\ merged[k].confidence <= LLM_CONFIDENCE_HIGH}
        IN inband # {} =>
             LET k == CHOOSE k \in inband : \A m \in inband : k <= m
             IN /\ vi <= k => (ollama_available /\ calls = <<>>)
                /\ vi > k => (Len(calls) >= 1 /\ calls[1][1] = k)

\* the one prompt there is was asked in the first invocation, the call
\* failed, and the second invocation made the call again
AskedAgainAfterFailure ==
    /\ pc = "validate"
    /\ first.done
    /\ ~first.out.raised
    /\ Len(oracle) = 1
    /\ oracle[1][2].tag = "None"
    /\ Len(calls) = 1
    /\ calls[1][2] = "None"

\* C29: every entity detect returns, and every entity validate_entities
\* puts in its result, has a confidence in [0, 1], whatever verdict and
\* whatever confidence, below 0 and above 1 included, the LLM reported.
ReturnedConfidenceInUnitRange ==
    /\ \A k \in 1..Len(result) :
        0 <= result[k].confidence /\ result[k].confidence <= 10000
    /\ pc = "returned" =>
        \A i \in 1..Len(out.entities) :
            0 <= out.entities[i].confidence /\ out.entities[i].confidence <= 10000

\* detect returned an entity that the LLM had called PII with a confidence
\* above 1, after the LLM had reported a confidence below 0 for another
ReturnedAfterOutOfRangeReports ==
    /\ pc = "returned"
    /\ \E c \in 1..Len(calls), i \in 1..Len(out.entities) :
        /\ calls[c][2] = "dict"
        /\ calls[c][3].is_pii
        /\ calls[c][3].confidence > 10000
        /\ out.entities[i].start = merged[calls[c][1]].start
        /\ out.entities[i].llm_validated
    /\ \E c \in 1..Len(calls) :
        /\ calls[c][2] = "dict"
        /\ calls[c][3].confidence < 0

\* C30: the engine _get_analyzer hands to a caller has, at the moment it is
\* handed over, all the custom address recognizers registered, also while
\* another caller is still busy with the first initialization.
HandedEngineHasRecognizers ==
    \A t \in Callers :
        callers[t].got # NoAnalyzer => callers[t].got.recognizers >= IndianRecognizers

====
